---------------------------- MODULE Spec2Model ----------------------------
(***************************************************************************)
(* Model of pkg/dwarf/parseutil.go: the fixed-width integer primitives     *)
(* (ReadUintRaw, WriteUint), the length/version reader                     *)
(* (ReadDwarfLengthVersion) and the .debug_info unit scanner               *)
(* (ReadUnitVersions).                                                     *)
(*                                                                         *)
(* A byte is a number in 0..255, a byte slice a sequence of bytes.  A      *)
(* uint64 is kept as its eight base-256 digits, least significant first,   *)
(* so that every value of the type is represented exactly; a uint32 is     *)
(* such a tuple whose digits 5..8 are 0.                                   *)
(***************************************************************************)
EXTENDS Integers, Sequences, FiniteSets, TLC

VARIABLES
    input,    \* the slice passed to ReadUnitVersions (never written)
    units,    \* the unit descriptions the input was encoded from
    data,     \* ReadUnitVersions: the local slice `data`
    off,      \* ReadUnitVersions: the local `off`
    r,        \* ReadUnitVersions: the map `r`
    status,   \* "run" inside the loop, "done" after return, "panic" after a run-time panic
    hist,     \* one record per loop iteration begun, in order
    ioPc,     \* primitive I/O: "idle", "start", "written", "read"
    ioArg,    \* primitive I/O: arguments of the WriteUint call
    ioBuf,    \* primitive I/O: the byte stream shared by writer and reader
    ioWErr,   \* primitive I/O: WriteUint returned an error
    ioRead    \* primitive I/O: arguments and results of the ReadUintRaw call

vars == <<input, units, data, off, r, status, hist, ioPc, ioArg, ioBuf, ioWErr, ioRead>>

scanVars == <<input, units, data, off, r, status, hist>>

ioVars == <<ioPc, ioArg, ioBuf, ioWErr, ioRead>>

-----------------------------------------------------------------------------
(* Bounds of the explored inputs *)

MaxRaw == 7

MaxUnits == 2

MaxSlack == 1

-----------------------------------------------------------------------------
(* Byte orders and fixed-width integers (encoding/binary) *)

LittleEndian == "LittleEndian"

BigEndian == "BigEndian"

ByteOrders == {LittleEndian, BigEndian}

Zero64 == <<0, 0, 0, 0, 0, 0, 0, 0>>

Drop(s, n) == SubSeq(s, n + 1, Len(s))

Take(s, n) == SubSeq(s, 1, n)

Zeros(n) == [i \in 1..n |-> 0]

\* order.Uint16(b) widened to uint64
Uint16(order, b) ==
    IF order = LittleEndian
    THEN <<b[1], b[2], 0, 0, 0, 0, 0, 0>>
    ELSE <<b[2], b[1], 0, 0, 0, 0, 0, 0>>

\* order.Uint32(b) widened to uint64
Uint32(order, b) ==
    IF order = LittleEndian
    THEN <<b[1], b[2], b[3], b[4], 0, 0, 0, 0>>
    ELSE <<b[4], b[3], b[2], b[1], 0, 0, 0, 0>>

\* order.Uint64(b)
Uint64(order, b) ==
    IF order = LittleEndian
    THEN <<b[1], b[2], b[3], b[4], b[5], b[6], b[7], b[8]>>
    ELSE <<b[8], b[7], b[6], b[5], b[4], b[3], b[2], b[1]>>

\* order.PutUint32 of the uint32 v
PutUint32(order, v) ==
    IF order = LittleEndian
    THEN <<v[1], v[2], v[3], v[4]>>
    ELSE <<v[4], v[3], v[2], v[1]>>

\* order.PutUint64 of the uint64 v
PutUint64(order, v) ==
    IF order = LittleEndian
    THEN <<v[1], v[2], v[3], v[4], v[5], v[6], v[7], v[8]>>
    ELSE <<v[8], v[7], v[6], v[5], v[4], v[3], v[2], v[1]>>

\* the conversion uint32(v) of a uint64
ToUint32(v) == <<v[1], v[2], v[3], v[4], 0, 0, 0, 0>>

\* the uint64 of a small natural number
FromNat(n) == <<n % 256, (n \div 256) % 256, 0, 0, 0, 0, 0, 0>>

\* v <= n, for a uint64 v and a slice length n
AtMost(v, n) ==
    /\ \A i \in 4..8 : v[i] = 0
    /\ v[1] + 256 * v[2] + 65536 * v[3] <= n

\* the number a uint64 stands for, where it is known to be a slice length
ToNat(v) == v[1] + 256 * v[2] + 65536 * v[3]

-----------------------------------------------------------------------------
(* ReadDwarfLengthVersion *)

LvDefaults ==
    [length |-> Zero64, dwarf64 |-> FALSE, version |-> 0, byteOrder |-> LittleEndian]

\* lengthfield == ^uint32(0), with lengthfield read little-endian
IsSentinel(d) == Uint32(LittleEndian, d) = <<255, 255, 255, 255, 0, 0, 0, 0>>

Voff(d) == IF IsSentinel(d) THEN 12 ELSE 4

\* VersionOrder without the `default: fallthrough` of the switch
VersionOrder_NoDefault(x, y) ==
    CASE x = 0 /\ y = 0 -> [version |-> 0, byteOrder |-> LittleEndian]
      [] x = 0 /\ y # 0 -> [version |-> y, byteOrder |-> BigEndian]
      [] OTHER          -> [version |-> x, byteOrder |-> LittleEndian]

\* the switch over the two bytes of the version field
VersionOrder(x, y) ==
    CASE x = 0 /\ y = 0 -> [version |-> 0, byteOrder |-> LittleEndian]
      [] x = 0 /\ y # 0 -> [version |-> y, byteOrder |-> BigEndian]
      [] x # 0 /\ y = 0 -> [version |-> x, byteOrder |-> LittleEndian]
      [] OTHER          -> [version |-> 0, byteOrder |-> LittleEndian]

ReadDwarfLengthVersion(d) ==
    IF Len(d) < 4 THEN LvDefaults
    ELSE LET dwarf64 == IsSentinel(d)
             voff    == Voff(d)
         IN  IF voff + 1 >= Len(d) THEN LvDefaults
             ELSE LET vo == VersionOrder(d[voff + 1], d[voff + 2])
                  IN  [length    |-> IF dwarf64
                                     THEN Uint64(vo.byteOrder, Drop(d, 4))
                                     ELSE Uint32(vo.byteOrder, d),
                       dwarf64   |-> dwarf64,
                       version   |-> vo.version,
                       byteOrder |-> vo.byteOrder]

-----------------------------------------------------------------------------
(* ReadUnitVersions *)

DW_UT_compile == 1

DW_UT_type == 2

DW_UT_partial == 3

DW_UT_skeleton == 4

DW_UT_split_compile == 5

DW_UT_split_type == 6

\* DataAfterLength without the statement data = data[4:]
DataAfterLength_Keep4(d, dwarf64) == IF dwarf64 THEN Drop(d, 8) ELSE d

\* data = data[4:], and data = data[8:] for 64-bit DWARF
DataAfterLength(d, dwarf64) == IF dwarf64 THEN Drop(Drop(d, 4), 8) ELSE Drop(d, 4)

\* OffAfterLength without the off += 8 of the dwarf64 branch
OffAfterLength_No64(o, dwarf64) == o + 4

\* off += 4, and off += 8 for 64-bit DWARF
OffAfterLength(o, dwarf64) == IF dwarf64 THEN o + 4 + 8 ELSE o + 4

SecOffSz(dwarf64) == IF dwarf64 THEN 8 ELSE 4

\* UnitTypeHeaderSize with the skeleton units under the compile case
UnitTypeHeaderSize_SkeletonAsCompile(unitType, secoffsz) ==
    CASE unitType \in {DW_UT_compile, DW_UT_partial,
                       DW_UT_skeleton, DW_UT_split_compile}  -> 4 + secoffsz
      [] unitType \in {DW_UT_type, DW_UT_split_type}         -> 4 + secoffsz + 8 + secoffsz
      [] OTHER                                               -> 0

\* the inner switch over the unit type; `var headerSize int` starts at 0
UnitTypeHeaderSize(unitType, secoffsz) ==
    CASE unitType \in {DW_UT_compile, DW_UT_partial}        -> 4 + secoffsz
      [] unitType \in {DW_UT_skeleton, DW_UT_split_compile} -> 4 + secoffsz + 8
      [] unitType \in {DW_UT_type, DW_UT_split_type}        -> 4 + secoffsz + 8 + secoffsz
      [] OTHER                                              -> 0

\* the switch over the version; d1 is the slice after the length field
HeaderSize(version, secoffsz, d1) ==
    IF version \in {2, 3, 4}
    THEN 3 + secoffsz
    ELSE UnitTypeHeaderSize(d1[3], secoffsz)

\* DataAfterSkip that takes the length to start after the version field
DataAfterSkip_PastVersion(d1, length) == Drop(d1, ToNat(length) + 2)

\* data = data[length:]
DataAfterSkip(d1, length) == Drop(d1, ToNat(length))

\* OffAfterSkip without the statement off += dwarf.Offset(length)
OffAfterSkip_Forgotten(o1, length) == o1

\* off += dwarf.Offset(length)
OffAfterSkip(o1, length) == o1 + ToNat(length)

\* the map write r[k] = v
MapPut(m, k, v) == [x \in DOMAIN m \cup {k} |-> IF x = k THEN v ELSE m[x]]

EmptyMap == [x \in {} |-> 0]

\* How far an iteration over the slice d gets: the line whose index or slice
\* expression is out of range and panics, or "ok".
IterOutcome(d) ==
    LET lv == ReadDwarfLengthVersion(d)
    IN  IF Len(d) < 4 THEN "panic115"
        ELSE IF lv.dwarf64 /\ Len(d) < 12 THEN "panic121"
        ELSE IF lv.version \notin {2, 3, 4} /\ Len(DataAfterLength(d, lv.dwarf64)) < 3
             THEN "panic130"
        ELSE IF ~AtMost(lv.length, Len(DataAfterLength(d, lv.dwarf64))) THEN "panic146"
        ELSE "ok"

\* One iteration of the loop `for len(data) > 0`.  The map write of line 144
\* happens before the slice expression of line 146 is evaluated.
Iterate ==
    /\ status = "run"
    /\ Len(data) > 0
    /\ LET lv       == ReadDwarfLengthVersion(data)
           outcome  == IterOutcome(data)
           d1       == DataAfterLength(data, lv.dwarf64)
           off1     == OffAfterLength(off, lv.dwarf64)
           secoffsz == SecOffSz(lv.dwarf64)
           wrote    == outcome \in {"ok", "panic146"}
           hs       == IF wrote THEN HeaderSize(lv.version, secoffsz, d1) ELSE 0
           key      == off1 + hs
       IN  /\ hist' = Append(hist,
                        [start |-> off, rest |-> Len(data), lv |-> lv,
                         unitType |-> IF Len(d1) >= 3 THEN d1[3] ELSE -1,
                         headerSize |-> hs, key |-> key,
                         wrote |-> wrote, outcome |-> outcome])
           /\ r' = IF wrote THEN MapPut(r, key, lv.version) ELSE r
           /\ IF outcome = "ok"
              THEN /\ data' = DataAfterSkip(d1, lv.length)
                   /\ off' = OffAfterSkip(off1, lv.length)
                   /\ status' = "run"
              ELSE /\ data' = IF outcome = "panic115" THEN data ELSE d1
                   /\ off' = IF outcome = "panic115" THEN off ELSE off1
                   /\ status' = "panic"
    /\ UNCHANGED <<input, units, ioVars>>

\* The loop condition fails and the function returns r.
Return ==
    /\ status = "run"
    /\ Len(data) = 0
    /\ status' = "done"
    /\ UNCHANGED <<input, units, data, off, r, hist, ioVars>>

-----------------------------------------------------------------------------
(* The byte slices handed to ReadUnitVersions.                             *)
(* A unit description gives the fields a producer writes into a unit: the  *)
(* length encoding, the byte order, the version, the byte after the        *)
(* version field (the unit type from DWARF 5 on) and the value of the      *)
(* length field.  The unit is encoded with exactly `length` bytes after    *)
(* the length field: the version field, the unit-type byte, zero filler.   *)

EncodeLength(u) ==
    IF u.dwarf64
    THEN <<255, 255, 255, 255>> \o PutUint64(u.order, FromNat(u.length))
    ELSE PutUint32(u.order, FromNat(u.length))

EncodeVersion(u) ==
    IF u.order = LittleEndian THEN <<u.version, 0>> ELSE <<0, u.version>>

EncodeUnit(u) ==
    EncodeLength(u) \o Take(EncodeVersion(u) \o <<u.unitType>> \o Zeros(u.length), u.length)

RECURSIVE EncodeAll(_)
EncodeAll(us) ==
    IF us = <<>> THEN <<>> ELSE EncodeUnit(Head(us)) \o EncodeAll(Tail(us))

\* the header size DWARF gives a unit, 4 + S standing in for an unknown unit type
NominalHeader(version, unitType, dwarf64) ==
    LET S == IF dwarf64 THEN 8 ELSE 4
    IN  IF version \in {2, 3, 4} THEN 3 + S
        ELSE IF unitType \in {2, 6} THEN 4 + S + 8 + S
        ELSE IF unitType \in {4, 5} THEN 4 + S + 8
        ELSE 4 + S

VersionTypes ==
    {<<2, 0>>, <<3, 0>>, <<4, 0>>, <<0, 1>>, <<6, 1>>} \cup {<<5, t>> : t \in 0..7}

FirstShapes ==
    {[dwarf64 |-> d, order |-> o, version |-> vt[1], unitType |-> vt[2], length |-> l] :
        d \in BOOLEAN, o \in ByteOrders, vt \in VersionTypes, l \in 0..(28 + MaxSlack)}

FirstUnits ==
    {u \in FirstShapes :
        LET h == NominalHeader(u.version, u.unitType, u.dwarf64)
        IN  u.length \in {0, 3} \cup {h + k : k \in 0..MaxSlack}}

FollowUnits ==
    {u \in FirstShapes :
        /\ <<u.version, u.unitType>> \in {<<4, 0>>, <<5, 1>>, <<5, 7>>}
        /\ u.length \in {3, NominalHeader(u.version, u.unitType, u.dwarf64)}}

UnitSeqs ==
    UNION {{us \in [1..n -> FirstUnits] : \A i \in 2..n : us[i] \in FollowUnits} :
              n \in 1..MaxUnits}

RawBytes == {0, 3, 5, 255}

RawInputs == UNION {[1..n -> RawBytes] : n \in 0..MaxRaw}

\* a single unit cut short
TruncatedInputs ==
    UNION {{Take(EncodeUnit(u), n) : n \in 1..(Len(EncodeUnit(u)) - 1)} : u \in FirstUnits}

ScanIdle ==
    /\ input = <<>> /\ units = <<>> /\ data = <<>> /\ off = 0
    /\ r = EmptyMap /\ status = "idle" /\ hist = <<>>

IoIdle ==
    /\ ioPc = "idle" /\ ioArg = <<>> /\ ioBuf = <<>> /\ ioWErr = FALSE /\ ioRead = <<>>

\* ReadUnitVersions has been called: r is the empty map, off is 0
Init ==
    /\ \/ \E us \in UnitSeqs : units = us /\ input = EncodeAll(us)
       \/ \E b \in RawInputs : units = <<>> /\ input = b
       \/ \E b \in TruncatedInputs : units = <<>> /\ input = b
    /\ data = input
    /\ off = 0
    /\ r = EmptyMap
    /\ status = "run"
    /\ hist = <<>>
    /\ IoIdle

Next == Iterate \/ Return

Spec == Init /\ [][Next]_vars

-----------------------------------------------------------------------------
(* Properties of ReadUnitVersions *)

\* the slice has fewer than 4 bytes, or too few to reach the version field
TooShort(d) ==
    \/ Len(d) < 4
    \/ LET v == IF Take(d, 4) = <<255, 255, 255, 255>> THEN 12 ELSE 4
       IN  v + 1 >= Len(d)

\* C1: for every input ReadUnitVersions returns a map and never aborts: no
\* step of the scan indexes or slices past the end of the remaining data.
C1_NeverAborts == status # "panic"

\* C2: when the bytes remaining at a unit boundary are too few to hold the
\* length field or to reach the version field, ReadDwarfLengthVersion
\* returns the defaults and ReadUnitVersions stops there, returning the
\* entries recorded so far and adding none for the truncated unit.
C2_TruncatedUnitEndsScan ==
    [][(status = "run" /\ TooShort(data))
          => /\ ReadDwarfLengthVersion(data) = LvDefaults
             /\ status' = "done"
             /\ r' = r]_vars

\* C6: a unit that does not take the version 2/3/4 branch and whose
\* unit-type byte is not one of 1..6 is never recorded with a header size of
\* 0: an entry recorded for it has header size 4 + S.
C6_UnknownUnitTypeHeader ==
    \A i \in DOMAIN hist :
        LET h == hist[i]
        IN  (h.wrote /\ h.lv.version \notin {2, 3, 4} /\ h.unitType \notin 1..6)
                => /\ h.headerSize = 4 + (IF h.lv.dwarf64 THEN 8 ELSE 4)
                   /\ h.key = h.start + (IF h.lv.dwarf64 THEN 12 ELSE 4) + h.headerSize

\* a unit description of a complete, well-formed unit
WellFormed(u) ==
    /\ \/ u.version \in {2, 3, 4}
       \/ u.version >= 5 /\ u.unitType \in 1..6
    /\ u.length >= NominalHeader(u.version, u.unitType, u.dwarf64)

WellFormedInput ==
    /\ input = EncodeAll(units)
    /\ \A i \in DOMAIN units : WellFormed(units[i])

\* F: the size of the length field of the unit u
FieldSize(u) == IF u.dwarf64 THEN 12 ELSE 4

\* o: the absolute offset of the i-th unit, the sum of F + L over the units before it
RECURSIVE UnitOffset(_, _)
UnitOffset(us, i) ==
    IF i = 1 THEN 0
    ELSE UnitOffset(us, i - 1) + FieldSize(us[i - 1]) + us[i - 1].length

ExpectedKey(us, i) ==
    UnitOffset(us, i) + FieldSize(us[i])
        + NominalHeader(us[i].version, us[i].unitType, us[i].dwarf64)

\* C3: on a concatenation of complete well-formed units the scan reads the
\* i-th unit at o = sum of F + L of the units before it, in the unit's own
\* byte order, and returns exactly one entry per unit, o + F + H -> version.
C3_WellFormedUnits ==
    WellFormedInput =>
        /\ status # "panic"
        /\ Len(hist) <= Len(units)
        /\ \A i \in DOMAIN hist :
              /\ hist[i].start = UnitOffset(units, i)
              /\ hist[i].lv.byteOrder = units[i].order
              /\ hist[i].lv.dwarf64 = units[i].dwarf64
              /\ hist[i].key = ExpectedKey(units, i)
        /\ status = "done" =>
              /\ Len(hist) = Len(units)
              /\ Cardinality(DOMAIN r) = Len(units)
              /\ DOMAIN r = {ExpectedKey(units, i) : i \in DOMAIN units}
              /\ \A i \in DOMAIN units : r[ExpectedKey(units, i)] = units[i].version

C3_Witness ==
    /\ WellFormedInput
    /\ status = "done"
    /\ Len(units) = 2
    /\ units[1].order = BigEndian /\ units[2].order = LittleEndian
    /\ units[1].dwarf64 /\ ~units[2].dwarf64
    /\ units[1].version = 5 /\ units[1].unitType = DW_UT_split_type
    /\ Cardinality(DOMAIN r) = 2

\* the value of the length field of an iteration that went through
HistLength(h) == ToNat(h.lv.length)

\* C4 as stated: every key of the returned map is an offset of a byte of the
\* input, 0 <= k < |B|.
C4_KeysInsideInput ==
    status = "done" => \A k \in DOMAIN r : 0 <= k /\ k < Len(input)

\* C4 amended: on return, the key of a unit whose payload length exceeds its
\* header size is below |B|; the key of a unit whose payload length equals
\* its header size is the offset just past the unit, which is |B| exactly
\* for the final unit.
C4_KeysWithinUnit ==
    status = "done" =>
        \A i \in DOMAIN hist :
            LET h == hist[i]
            IN  /\ h.key >= 0
                /\ HistLength(h) > h.headerSize => h.key < Len(input)
                /\ HistLength(h) = h.headerSize =>
                      /\ h.key <= Len(input)
                      /\ (h.key = Len(input)) <=> (i = Len(hist))

C4_Witness ==
    /\ status = "done"
    /\ Len(hist) = 2
    /\ HistLength(hist[1]) > hist[1].headerSize
    /\ HistLength(hist[2]) = hist[2].headerSize
    /\ hist[2].headerSize > 0
    /\ hist[2].key = Len(input)
    /\ hist[2].key \in DOMAIN r

StrictlyIncreasingKeys ==
    \A i \in DOMAIN hist : \A j \in DOMAIN hist : i < j => hist[i].key < hist[j].key

\* C5 as stated: for every input on which ReadUnitVersions returns, the keys
\* are strictly increasing in the order written, and the map has as many
\* entries as loop iterations.
C5_KeysIncreaseAlways ==
    status = "done" =>
        /\ StrictlyIncreasingKeys
        /\ Cardinality(DOMAIN r) = Len(hist)

\* C5 amended: on return, the key written after a unit whose payload length
\* is at least its header size is greater than that unit's key; when this
\* holds of every unit scanned the keys are strictly increasing and the map
\* has as many entries as loop iterations.
C5_KeysIncreaseWhenPayloadCoversHeader ==
    status = "done" =>
        /\ \A i \in DOMAIN hist :
              (i < Len(hist) /\ HistLength(hist[i]) >= hist[i].headerSize)
                  => hist[i].key < hist[i + 1].key
        /\ (\A i \in DOMAIN hist : HistLength(hist[i]) >= hist[i].headerSize)
              => /\ StrictlyIncreasingKeys
                 /\ Cardinality(DOMAIN r) = Len(hist)

C5_Witness ==
    /\ status = "done"
    /\ Len(hist) = 2
    /\ \A i \in DOMAIN hist : HistLength(hist[i]) >= hist[i].headerSize
    /\ hist[1].headerSize = 20
    /\ hist[2].headerSize = 0
    /\ hist[1].key < hist[2].key

\* the input starts with a 32-bit unit whose length field is 0, followed by
\* a readable version field
ZeroLengthUnit(b) == Len(b) >= 6 /\ Take(b, 4) = <<0, 0, 0, 0>>

\* C7 as stated: on such an input ReadUnitVersions terminates normally with
\* exactly one entry, the bytes after the length field not being read again
\* as the start of another unit.
C7_ZeroLengthUnitOneEntry ==
    (ZeroLengthUnit(input) /\ status # "run") =>
        /\ status = "done"
        /\ Len(hist) = 1
        /\ Cardinality(DOMAIN r) = 1

\* the version ReadDwarfLengthVersion finds in the bytes x, y is 2, 3 or 4
OldVersionField(x, y) ==
    <<x, y>> \in {<<v, 0>> : v \in 2..4} \cup {<<0, v>> : v \in 2..4}

\* C7 amended: on such an input the scan does not stop after the unit of
\* length 0.  The first iteration aborts at the unit-type read when the
\* version is not 2, 3 or 4 and fewer than 3 bytes follow the length field;
\* otherwise it records one entry at key 4 + H and advances past the length
\* field only: the scan resumes at offset 4, reading the bytes after the
\* length field as the start of the next unit, and the call ends in a
\* second or later iteration.
C7_ZeroLengthUnitRescanned ==
    (ZeroLengthUnit(input) /\ Len(hist) >= 1) =>
        IF OldVersionField(input[5], input[6]) \/ Len(input) >= 7
        THEN /\ hist[1].outcome = "ok"
             /\ hist[1].key = 4 + hist[1].headerSize
             /\ hist[1].key \in DOMAIN r
             /\ Len(hist) = 1 => (status = "run" /\ off = 4 /\ data = Drop(input, 4))
             /\ Len(hist) >= 2 => (hist[2].start = 4 /\ hist[2].rest = Len(input) - 4)
        ELSE /\ hist[1].outcome = "panic130"
             /\ status = "panic"
             /\ r = EmptyMap

C7_Witness ==
    /\ ZeroLengthUnit(input)
    /\ status = "done"
    /\ Len(hist) = 2
    /\ hist[1].lv.version = 3
    /\ hist[2].start = 4
    /\ Cardinality(DOMAIN r) = 2

\* C8: the loop begins at most ceil(|B| / 4) iterations, every iteration
\* that goes through leaving at least 4 bytes fewer to scan.
C8_IterationBound ==
    /\ 4 * Len(hist) <= Len(input) + 3
    /\ status = "run" => Len(data) + 4 * Len(hist) <= Len(input)
    /\ status = "done" => Len(data) = 0

C8_Witness ==
    /\ status # "run"
    /\ Len(hist) >= 2
    /\ 4 * Len(hist) >= Len(input)
    /\ hist[1].outcome = "ok"
    /\ hist[1].lv.length = Zero64
    /\ hist[2].rest = Len(input) - 4

\* the bytes of the slice d from index i to index j, counted from 0
Bytes(d, i, j) == [k \in 1..(j - i + 1) |-> d[i + k]]

\* C10: on a slice long enough to hold the version field, with x and y the
\* two bytes after the length field, ReadDwarfLengthVersion returns version
\* y and big-endian when x = 0 and y # 0, version x and little-endian when
\* y = 0 and x # 0, version 0 and little-endian otherwise; the length is
\* the first 4 bytes (32-bit) or the bytes 4..11 (64-bit) read in that byte
\* order, and dwarf64 holds exactly when the first four bytes are FF FF FF FF.
C10_LengthVersion ==
    \A i \in DOMAIN hist :
        LET d    == Drop(input, hist[i].start)
            is64 == Bytes(d, 0, 3) = <<255, 255, 255, 255>>
            x    == IF is64 THEN d[13] ELSE d[5]
            y    == IF is64 THEN d[14] ELSE d[6]
            big  == x = 0 /\ y # 0
            raw  == IF is64 THEN Bytes(d, 4, 11) ELSE Bytes(d, 0, 3) \o <<0, 0, 0, 0>>
            lv   == hist[i].lv
        IN  ~TooShort(d) =>
              /\ lv.dwarf64 = is64
              /\ lv.byteOrder = (IF big THEN BigEndian ELSE LittleEndian)
              /\ lv.version = (IF big THEN y ELSE IF y = 0 THEN x ELSE 0)
              /\ \A k \in 1..8 :
                    lv.length[k] =
                        IF ~big THEN raw[k]
                        ELSE IF is64 THEN raw[9 - k]
                        ELSE IF k <= 4 THEN raw[5 - k] ELSE 0

C10_Witness ==
    /\ Len(hist) = 2
    /\ hist[1].rest >= 14
    /\ hist[1].lv.dwarf64
    /\ hist[1].lv.byteOrder = BigEndian
    /\ hist[1].lv.length # Zero64
    /\ hist[2].rest >= 6
    /\ ~hist[2].lv.dwarf64
    /\ hist[2].lv.byteOrder = LittleEndian
    /\ hist[2].lv.version = 5

-----------------------------------------------------------------------------
(* ReadUintRaw and WriteUint over a byte stream *)

\* WriteUint that writes the 4-byte width little-endian whatever the order
WriteUint_Fixed32Order(order, ptrSize, v) ==
    CASE ptrSize = 4 -> [bytes |-> PutUint32(LittleEndian, ToUint32(v)), err |-> FALSE]
      [] ptrSize = 8 -> [bytes |-> PutUint64(order, v), err |-> FALSE]
      [] OTHER       -> [bytes |-> <<>>, err |-> TRUE]

\* WriteUint(writer, order, ptrSize, data): the bytes appended, and the error
WriteUint(order, ptrSize, v) ==
    CASE ptrSize = 4 -> [bytes |-> PutUint32(order, ToUint32(v)), err |-> FALSE]
      [] ptrSize = 8 -> [bytes |-> PutUint64(order, v), err |-> FALSE]
      [] OTHER       -> [bytes |-> <<>>, err |-> TRUE]

\* binary.Read of n bytes: fails when the stream holds fewer than n bytes
ShortRead(buf, n) == Len(buf) < n

\* ReadUintRaw(reader, order, ptrSize): the value, the error, the bytes consumed
ReadUintRaw(buf, order, ptrSize) ==
    CASE ptrSize = 2 ->
            IF ShortRead(buf, 2) THEN [val |-> Zero64, err |-> TRUE, used |-> Len(buf)]
            ELSE [val |-> Uint16(order, buf), err |-> FALSE, used |-> 2]
      [] ptrSize = 4 ->
            IF ShortRead(buf, 4) THEN [val |-> Zero64, err |-> TRUE, used |-> Len(buf)]
            ELSE [val |-> Uint32(order, buf), err |-> FALSE, used |-> 4]
      [] ptrSize = 8 ->
            IF ShortRead(buf, 8) THEN [val |-> Zero64, err |-> TRUE, used |-> Len(buf)]
            ELSE [val |-> Uint64(order, buf), err |-> FALSE, used |-> 8]
      [] OTHER -> [val |-> Zero64, err |-> TRUE, used |-> 0]

ValueDigits == {0, 1, 255}

Values == [1..8 -> ValueDigits]

Widths == {1, 2, 4, 8}

\* a caller writes one integer to an empty stream
DoWrite ==
    /\ ioPc = "start"
    /\ LET w == WriteUint(ioArg.order, ioArg.ptrSize, ioArg.v)
       IN  /\ ioBuf' = ioBuf \o w.bytes
           /\ ioWErr' = w.err
    /\ ioPc' = "written"
    /\ UNCHANGED <<ioArg, ioRead, scanVars>>

\* a caller reads one integer back from the stream
DoRead ==
    /\ ioPc = "written"
    /\ \E order \in ByteOrders, ptrSize \in Widths :
          LET rd == ReadUintRaw(ioBuf, order, ptrSize)
          IN  /\ ioRead' = [order |-> order, ptrSize |-> ptrSize,
                            val |-> rd.val, err |-> rd.err]
              /\ ioBuf' = Drop(ioBuf, rd.used)
    /\ ioPc' = "read"
    /\ UNCHANGED <<ioArg, ioWErr, scanVars>>

InitIO ==
    /\ ScanIdle
    /\ ioPc = "start"
    /\ \E order \in ByteOrders, ptrSize \in Widths, v \in Values :
          ioArg = [order |-> order, ptrSize |-> ptrSize, v |-> v]
    /\ ioBuf = <<>>
    /\ ioWErr = FALSE
    /\ ioRead = <<>>

NextIO == DoWrite \/ DoRead

SpecIO == InitIO /\ [][NextIO]_vars

\* v mod 2^(8p): the p low digits of v
ModWidth(v, p) == [k \in 1..8 |-> IF k <= p THEN v[k] ELSE 0]

\* C9: WriteUint with width 4 or 8 followed by ReadUintRaw on the written
\* bytes with the same byte order and width returns the value written
\* modulo 2^(8p), and neither call returns an error.
C9_RoundTrip ==
    (/\ ioPc = "read"
     /\ ioArg.ptrSize \in {4, 8}
     /\ ioRead.order = ioArg.order
     /\ ioRead.ptrSize = ioArg.ptrSize) =>
        /\ ~ioWErr
        /\ ~ioRead.err
        /\ ioRead.val = ModWidth(ioArg.v, ioArg.ptrSize)
        /\ ioBuf = <<>>

C9_Witness ==
    /\ ioPc = "read"
    /\ ioArg.ptrSize = 4
    /\ ioArg.order = BigEndian
    /\ ioRead.order = ioArg.order
    /\ ioRead.ptrSize = ioArg.ptrSize
    /\ ioArg.v = <<1, 0, 0, 255, 255, 0, 0, 1>>
    /\ ioRead.val = <<1, 0, 0, 255, 0, 0, 0, 0>>

=============================================================================
